---- MODULE Spec2Model ----
(***************************************************************************)
(* Model of src/adapters/enibridgehub/index.ts: the chunked, auto-shrinking *)
(* log scan (getLogsSafe) and the inflow / outflow adapters built on it.    *)
(***************************************************************************)
EXTENDS Integers, Sequences, FiniteSets, TLC

VARIABLES
    chain,      \* argument of the adapter: the network scanned
    fromBlock,  \* argument of the adapter call
    toBlock,    \* argument of the adapter call
    source,     \* the logs the network holds for the contract (external, immutable)
    pc,         \* position of the async call: idle, awaiting, returned, failed
    start,      \* getLogsSafe: loop variable of the for loop
    end,        \* getLogsSafe: end of the window of the fetch in flight
    allLogs,    \* getLogsSafe: the accumulator
    fetches,    \* history: the getLogs calls completed in this call, in order
    result,     \* what the adapter call gave its caller
    calls,      \* number of times the caller invoked the adapter
    prevLogs,   \* the scans that returned in earlier calls (what the caller saw)
    id,         \* which adapter call the variables above belong to
    parked      \* a concurrent adapter call suspended at its await, or NoScan

vars == <<chain, fromBlock, toBlock, source, pc, start, end, allLogs,
          fetches, result, calls, prevLogs, id, parked>>

-----------------------------------------------------------------------------
(* Bounds of the model *)

MaxChunks == 2

MaxLogs == 2

MaxCalls == 2

MaxText == 4

-----------------------------------------------------------------------------
(* Configuration *)

SOURCE_CHAINS == {"ethereum", "bsc", "polygon", "arbitrum", "optimism", "base"}

ENI_CHAIN == "eni"

BRIDGE_EXECUTED_TOPIC == "BridgeExecuted"

ENI_CHAIN_ID == 173

MIN_RANGE == 50

Min(a, b) == IF a <= b THEN a ELSE b

-----------------------------------------------------------------------------
(* extData: a byte string.  A byte is an ASCII character or BAD, a byte     *)
(* that is not valid UTF-8.                                                 *)

BAD == "xFF"

REPLACEMENT == "uFFFD"

Digits == {"0", "1", "2", "3", "4", "5", "6", "7", "8", "9"}

DigitVal(c) ==
    CASE c = "0" -> 0 [] c = "1" -> 1 [] c = "2" -> 2 [] c = "3" -> 3
      [] c = "4" -> 4 [] c = "5" -> 5 [] c = "6" -> 6 [] c = "7" -> 7
      [] c = "8" -> 8 [] c = "9" -> 9

\* ethers.utils.toUtf8String: throws on an invalid byte
Utf8Throws(bytes) == \E i \in 1..Len(bytes) : bytes[i] = BAD

\* Buffer.from(hex, "hex").toString(): never throws, an invalid byte
\* becomes the replacement character
BufferToString(bytes) ==
    [i \in 1..Len(bytes) |-> IF bytes[i] = BAD THEN REPLACEMENT ELSE bytes[i]]

\* variant: the pattern without its anchor, /c=(\d+)/
MatchAtAnywhere(text, i) ==
    /\ i + 2 <= Len(text)
    /\ text[i] = "c"
    /\ text[i + 1] = "="
    /\ text[i + 2] \in Digits

\* positions where /(^|[&?])c=(\d+)/ finds its "c"
MatchAt(text, i) ==
    /\ i + 2 <= Len(text)
    /\ i = 1 \/ text[i - 1] \in {"&", "?"}
    /\ text[i] = "c"
    /\ text[i + 1] = "="
    /\ text[i + 2] \in Digits

\* Number(match[2]): the greedy run of digits from position i, read in base 10
RECURSIVE NumberFrom(_, _, _)
NumberFrom(text, i, acc) ==
    IF i <= Len(text) /\ text[i] \in Digits
    THEN NumberFrom(text, i + 1, acc * 10 + DigitVal(text[i]))
    ELSE acc

\* null: no digits read as a number give it
NULL == -1

\* text.match(/(^|[&?])c=(\d+)/): first match only
MatchChainId(text) ==
    LET hits == {i \in 1..Len(text) : MatchAt(text, i)}
    IN  IF hits = {} THEN NULL
        ELSE LET first == CHOOSE i \in hits : \A j \in hits : i <= j
             IN  NumberFrom(text, first + 2, 0)

getDestinationChainId(extData) ==
    IF ~Utf8Throws(extData)
    THEN MatchChainId(extData)
    ELSE MatchChainId(BufferToString(extData))

isDestinationENI(extData) == getDestinationChainId(extData) = ENI_CHAIN_ID

-----------------------------------------------------------------------------
(* Chunk sizes *)

\* variant: the default shared with the 4000 branch
getChunkSizeWide(c) ==
    IF c = "bsc" THEN 400
    ELSE IF c = "polygon" THEN 1500
    ELSE 4000

getChunkSize(c) ==
    IF c = "bsc" THEN 400
    ELSE IF c = "polygon" THEN 1500
    ELSE IF c = "arbitrum" \/ c = "optimism" \/ c = "base" THEN 4000
    ELSE 3000

chunkSize == getChunkSize(chain)

-----------------------------------------------------------------------------
(* Raw logs and the external log source *)

\* the shapes of raw log the source may hold: the topic the log carries and
\* the bytes of its extData field
Kinds == <<
    [topic0 |-> "Other",          extData |-> <<"c", "=", "1", "7", "3">>],
    [topic0 |-> "BridgeExecuted", extData |-> <<"x", "y", "z">>],
    [topic0 |-> "BridgeExecuted", extData |-> <<"c", "=", "1">>],
    [topic0 |-> "BridgeExecuted", extData |-> <<"c", "=", "1", "7", "3">>],
    [topic0 |-> "BridgeExecuted",
     extData |-> <<"r", "=", "1", "&", "c", "=", "1", "7", "3", "&", "x", "=", "9">>],
    [topic0 |-> "BridgeExecuted", extData |-> <<BAD, "c", "=", "1", "7", "3">>] >>

NKinds == Len(Kinds)

\* the i-th raw log of the source, in block b, of shape k
RawLog(i, b, k) ==
    [transactionHash |-> i,
     blockNumber     |-> b,
     topic0          |-> Kinds[k].topic0,
     sender          |-> 10 + i,
     recipient       |-> 20 + i,
     inputToken      |-> 30 + i,
     outputToken     |-> 40 + i,
     inputAmount     |-> 50 + i,
     extData         |-> Kinds[k].extData]

\* getLogs({chain, target, fromBlock: s, toBlock: e, topics}) when it
\* succeeds: the logs of the source in blocks s..e, in the source's order
getLogs(s, e) ==
    SelectSeq(source, LAMBDA l : s <= l.blockNumber /\ l.blockNumber <= e)

-----------------------------------------------------------------------------
(* Event classification *)

\* iface.parseLog(log) throws unless the log carries the event's topic
parseLogThrows(log) == log.topic0 # BRIDGE_EXECUTED_TOPIC

Event(log, isDeposit) ==
    [txHash      |-> log.transactionHash,
     blockNumber |-> log.blockNumber,
     from        |-> log.sender,
     to          |-> log.recipient,
     token       |-> log.inputToken,
     amount      |-> log.inputAmount,
     isDeposit   |-> isDeposit]

\* variant: inflowAdapter without the try / catch around parseLog
inflowKeepsUnparsed(log) == isDestinationENI(log.extData)

\* the test that lets a log through the loop of inflowAdapter
inflowKeeps(log) == ~parseLogThrows(log) /\ isDestinationENI(log.extData)

\* variant: outflowAdapter without its destination test
outflowKeepsAll(log) == ~parseLogThrows(log)

\* the test that lets a log through the loop of outflowAdapter
outflowKeeps(log) == ~parseLogThrows(log) /\ ~isDestinationENI(log.extData)

\* the loop of inflowAdapter over the logs getLogsSafe returned
inflowEvents(logs) ==
    LET kept == SelectSeq(logs, inflowKeeps)
    IN  [i \in 1..Len(kept) |-> Event(kept[i], TRUE)]

\* the loop of outflowAdapter over the logs getLogsSafe returned
outflowEvents(logs) ==
    LET kept == SelectSeq(logs, outflowKeeps)
    IN  [i \in 1..Len(kept) |-> Event(kept[i], FALSE)]

\* the adapter object: one inflow adapter per source chain, the outflow
\* adapter under the key eni
adapter(c, logs) ==
    IF c = ENI_CHAIN THEN outflowEvents(logs) ELSE inflowEvents(logs)

-----------------------------------------------------------------------------
(* getLogsSafe *)

\* variant: the window not clipped to toBlock
firstEndUnclipped(s) == s + chunkSize - 1

\* let end = Math.min(start + chunkSize - 1, toBlock)
firstEnd(s) == Min(s + chunkSize - 1, toBlock)

\* variant: the loop continued after the window that succeeded
nextStartAfterEnd(s) == end + 1

\* start += chunkSize
nextStart(s) == s + chunkSize

\* const range = end - start + 1
range(s, e) == e - s + 1

\* variant: the floor test written with < (a window of exactly 50 blocks is shrunk)
givesUpBelow(s, e) == range(s, e) < MIN_RANGE

\* variant: no floor test (the while loop never rethrows)
givesUpNever(s, e) == FALSE

\* if (range <= 50) throw e
givesUp(s, e) == range(s, e) <= MIN_RANGE

\* variant: end left as it was
shrunkEndSame(s, e) == e

\* variant: the window halved exactly, end = start + Math.floor(range / 2) - 1
shrunkEndHalf(s, e) == s + (range(s, e) \div 2) - 1

\* end = start + Math.floor(range / 2)
shrunkEnd(s, e) == s + (range(s, e) \div 2)

\* variant: allLogs.unshift(...logs)
unshiftAll(acc, logs) == logs \o acc

\* allLogs.push(...logs)
pushAll(acc, logs) == acc \o logs

NoResult == [status |-> "none", events |-> <<>>]

\* The caller invokes adapter[chain](fromBlock, toBlock) with a block range
\* (fromBlock <= toBlock): getLogsSafe starts, enters the for loop and
\* issues its first getLogs call.
BeginCall ==
    /\ start' = fromBlock
    /\ allLogs' = <<>>
    /\ fetches' = <<>>
    /\ result' = NoResult
    /\ calls' = calls + 1
    /\ end' = firstEnd(fromBlock)
    /\ pc' = "awaiting"

Call ==
    /\ pc = "idle"
    /\ BeginCall
    /\ UNCHANGED <<chain, fromBlock, toBlock, source, prevLogs, id, parked>>

\* The getLogs call in flight resolves: its logs are appended, the for loop
\* advances and either issues the next getLogs call or ends, in which case
\* getLogsSafe returns and the adapter classifies the logs and returns.
FetchOk ==
    /\ pc = "awaiting"
    /\ LET logs == getLogs(start, end)
           acc  == pushAll(allLogs, logs)
           s2   == nextStart(start)
       IN  /\ allLogs' = acc
           /\ fetches' = Append(fetches, [start |-> start, end |-> end, ok |-> TRUE])
           /\ start' = s2
           /\ IF s2 <= toBlock
              THEN /\ end' = firstEnd(s2)
                   /\ pc' = "awaiting"
                   /\ UNCHANGED result
              ELSE /\ end' = end
                   /\ pc' = "returned"
                   /\ result' = [status |-> "ok", events |-> adapter(chain, acc)]
    /\ UNCHANGED <<chain, fromBlock, toBlock, source, calls, prevLogs, id, parked>>

\* variant: the adapter catches the error and returns what was fetched so far
FetchFailPartial ==
    /\ pc = "awaiting"
    /\ fetches' = Append(fetches, [start |-> start, end |-> end, ok |-> FALSE])
    /\ IF givesUp(start, end)
       THEN /\ pc' = "failed"
            /\ result' = [status |-> "error", events |-> adapter(chain, allLogs)]
            /\ UNCHANGED end
       ELSE /\ end' = shrunkEnd(start, end)
            /\ pc' = "awaiting"
            /\ UNCHANGED result
    /\ UNCHANGED <<chain, fromBlock, toBlock, source, start, allLogs, calls, prevLogs, id, parked>>

\* The getLogs call in flight rejects: below the floor the error is
\* rethrown through getLogsSafe and the adapter, otherwise end is shrunk
\* and the while loop issues getLogs again.
FetchFail ==
    /\ pc = "awaiting"
    /\ fetches' = Append(fetches, [start |-> start, end |-> end, ok |-> FALSE])
    /\ IF givesUp(start, end)
       THEN /\ pc' = "failed"
            /\ result' = [status |-> "error", events |-> <<>>]
            /\ UNCHANGED end
       ELSE /\ end' = shrunkEnd(start, end)
            /\ pc' = "awaiting"
            /\ UNCHANGED result
    /\ UNCHANGED <<chain, fromBlock, toBlock, source, start, allLogs, calls, prevLogs, id, parked>>

\* The caller invokes the same adapter again on the same range, after the
\* previous call returned or failed.
Retry ==
    /\ pc \in {"returned", "failed"}
    /\ calls < MaxCalls
    /\ prevLogs' = IF pc = "returned" THEN prevLogs \cup {allLogs} ELSE prevLogs
    /\ BeginCall
    /\ UNCHANGED <<chain, fromBlock, toBlock, source, id, parked>>

-----------------------------------------------------------------------------
(* Concurrent adapter calls.  Each call is an async function with its own   *)
(* parameters and locals; the only places where another call can run are    *)
(* its await of getLogs and its end.                                        *)

\* no concurrent call
NoScan ==
    [id |-> 0, chain |-> "", fromBlock |-> 0, toBlock |-> 0, source |-> <<>>,
     pc |-> "idle", start |-> 0, end |-> 0, allLogs |-> <<>>, fetches |-> <<>>,
     result |-> NoResult]

\* the call whose frame the variables hold
running ==
    [id |-> id, chain |-> chain, fromBlock |-> fromBlock, toBlock |-> toBlock,
     source |-> source, pc |-> pc, start |-> start, end |-> end,
     allLogs |-> allLogs, fetches |-> fetches, result |-> result]

\* variant: the accumulator declared at module level, one array for all calls
SwitchSharedLogs ==
    /\ parked.id # 0
    /\ parked' = running
    /\ id' = parked.id
    /\ chain' = parked.chain
    /\ fromBlock' = parked.fromBlock
    /\ toBlock' = parked.toBlock
    /\ source' = parked.source
    /\ pc' = parked.pc
    /\ start' = parked.start
    /\ end' = parked.end
    /\ fetches' = parked.fetches
    /\ result' = parked.result
    /\ UNCHANGED <<allLogs, calls, prevLogs>>

\* The event loop leaves the call that is awaiting (or not yet started, or
\* over) and continues the other one with its own frame.
Switch ==
    /\ parked.id # 0
    /\ parked' = running
    /\ id' = parked.id
    /\ chain' = parked.chain
    /\ fromBlock' = parked.fromBlock
    /\ toBlock' = parked.toBlock
    /\ source' = parked.source
    /\ pc' = parked.pc
    /\ start' = parked.start
    /\ end' = parked.end
    /\ allLogs' = parked.allLogs
    /\ fetches' = parked.fetches
    /\ result' = parked.result
    /\ UNCHANGED <<calls, prevLogs>>

-----------------------------------------------------------------------------
(* Initial states: a request and a log source *)

FromBlocks == {100}

\* lengths of the requested range: within one chunk (at, below and above the
\* floor, a full chunk), one block into the second chunk, two full chunks,
\* and up to MaxChunks chunks of which the last is a short one above the floor
Lengths(cs) ==
    {1, 50, 51, cs, cs + 1, 2 * cs} \cup {(k - 1) * cs + 51 : k \in 2..MaxChunks}

\* where the source holds logs: the first block of the range, the last block
\* of its first chunk, its last block, and the block after it
LogBlocks(f, t, cs) == {f, Min(f + cs - 1, t), t, t + 1}

\* the log sources: MaxLogs logs in non-decreasing block order
Sources(f, t, cs) ==
    {[i \in 1..MaxLogs |-> RawLog(i, bs[i], ((i + shift) % NKinds) + 1)] :
        bs \in {x \in [1..MaxLogs -> LogBlocks(f, t, cs)] :
                    \A i \in 1..(MaxLogs - 1) : x[i] <= x[i + 1]},
        shift \in 0..(NKinds - 1)}

Init ==
    /\ chain \in SOURCE_CHAINS \cup {ENI_CHAIN}
    /\ fromBlock \in FromBlocks
    /\ \E len \in Lengths(getChunkSize(chain)) : toBlock = fromBlock + len - 1
    /\ source \in Sources(fromBlock, toBlock, getChunkSize(chain))
    /\ pc = "idle"
    /\ start = 0
    /\ end = 0
    /\ allLogs = <<>>
    /\ fetches = <<>>
    /\ result = NoResult
    /\ calls = 0
    /\ prevLogs = {}
    /\ id = 1
    /\ parked = NoScan

Next == Call \/ FetchOk \/ FetchFail

Spec == Init /\ [][Next]_vars

\* Termination does not read the logs: one source for each request
InitFair ==
    /\ Init
    /\ source = [i \in 1..MaxLogs |-> RawLog(i, fromBlock, (i % NKinds) + 1)]

\* the fetch in flight always resolves or rejects
FairSpec == InitFair /\ [][Next]_vars /\ WF_vars(FetchOk \/ FetchFail)

NextRetry == Next \/ Retry

SpecRetry == Init /\ [][NextRetry]_vars

\* ranges of the concurrent calls: one chunk above the floor, and a full
\* chunk followed by such a chunk
ConcLengths(cs) == {51, cs + 51}

\* Two adapter calls of the adapter object at once: a source chain's inflow
\* adapter and the outflow adapter of eni, each over its own network's logs.
InitConc ==
    /\ chain = "bsc"
    /\ fromBlock \in FromBlocks
    /\ \E len \in ConcLengths(getChunkSize(chain)) : toBlock = fromBlock + len - 1
    /\ \E bs \in [1..MaxLogs -> LogBlocks(fromBlock, toBlock, getChunkSize(chain))] :
          /\ \A i \in 1..(MaxLogs - 1) : bs[i] <= bs[i + 1]
          /\ source = [i \in 1..MaxLogs |-> RawLog(i, bs[i], ((i + 2) % NKinds) + 1)]
    /\ pc = "idle"
    /\ start = 0
    /\ end = 0
    /\ allLogs = <<>>
    /\ fetches = <<>>
    /\ result = NoResult
    /\ calls = 0
    /\ prevLogs = {}
    /\ id = 1
    /\ \E f \in FromBlocks, len \in ConcLengths(getChunkSize(ENI_CHAIN)) :
          parked = [NoScan EXCEPT
                      !.id = 2,
                      !.chain = ENI_CHAIN,
                      !.fromBlock = f,
                      !.toBlock = f + len - 1,
                      !.source = [i \in 1..MaxLogs |->
                                     RawLog(MaxLogs + i,
                                            IF i = 1 THEN f ELSE f + len - 1,
                                            (i % NKinds) + 1)]]

\* the bytes extData is made of
Alphabet == {"c", "=", "1", "7", "&", "?", "x"}

\* the extData values: every byte string of up to MaxText bytes, the shapes
\* of Kinds, and an invalid byte before a delimiter
Texts ==
    UNION {[1..n -> Alphabet] : n \in 0..MaxText}
      \cup {Kinds[k].extData : k \in 1..NKinds}
      \cup {<<BAD, "&", "c", "=", "1", "7", "3">>}

\* One BridgeExecuted log in the first block of the range, with any extData,
\* scanned by an inflow adapter or by the outflow adapter.
InitText ==
    /\ chain \in {"ethereum", ENI_CHAIN}
    /\ fromBlock \in FromBlocks
    /\ \E len \in {1, 51} : toBlock = fromBlock + len - 1
    /\ \E t \in Texts : source = <<[RawLog(1, fromBlock, 2) EXCEPT !.extData = t]>>
    /\ pc = "idle"
    /\ start = 0
    /\ end = 0
    /\ allLogs = <<>>
    /\ fetches = <<>>
    /\ result = NoResult
    /\ calls = 0
    /\ prevLogs = {}
    /\ id = 1
    /\ parked = NoScan

SpecText == InitText /\ [][Next]_vars

NextConc == Call \/ FetchOk \/ FetchFail \/ Switch

SpecConc == InitConc /\ [][NextConc]_vars

-----------------------------------------------------------------------------
(* Vocabulary of the properties *)

\* the completed getLogs calls of this call that succeeded, in order
okFetches == SelectSeq(fetches, LAMBDA f : f.ok)

size(f) == f.end - f.start + 1

\* a rejected getLogs call over a window at or below the floor
isTerminal(f) == ~f.ok /\ size(f) <= 50

CeilDiv(a, b) == (a + b - 1) \div b

RECURSIVE logsOf(_)
\* the logs the source holds in the windows ws, window after window
logsOf(ws) ==
    IF ws = <<>> THEN <<>>
    ELSE getLogs(Head(ws).start, Head(ws).end) \o logsOf(Tail(ws))

nonDecreasing(seq) ==
    \A i \in 1..(Len(seq) - 1) : seq[i].blockNumber <= seq[i + 1].blockNumber

\* the destination id is unknown
unknownDestination(log) == getDestinationChainId(log.extData) = NULL

emits(events, log) == \E i \in 1..Len(events) : events[i].txHash = log.transactionHash

-----------------------------------------------------------------------------
(* C1 - Range completeness: when a scan has returned, the windows of the    *)
(* fetches that succeeded, in the order issued, cover [fromBlock, toBlock]  *)
(* exactly: the first starts at fromBlock, each next one starts at the      *)
(* previous end + 1, the last ends at toBlock.                              *)
RangeCompleteness ==
    pc = "returned" =>
        /\ okFetches # <<>>
        /\ okFetches[1].start = fromBlock
        /\ \A i \in 1..(Len(okFetches) - 1) :
               okFetches[i + 1].start = okFetches[i].end + 1
        /\ okFetches[Len(okFetches)].end = toBlock

(* C2 - Fail-closed classification: a log that parses but whose destination *)
(* id is unknown (no c=<digits> key in its extData) is in no result an      *)
(* adapter returns, neither the inflow adapters' nor the outflow adapter's. *)
FailClosedClassification ==
    pc = "returned" =>
        \A i \in 1..Len(allLogs) :
            (~parseLogThrows(allLogs[i]) /\ unknownDestination(allLogs[i])) =>
                ~emits(result.events, allLogs[i])

(* C3 - Exact result set: when an adapter call has returned, its records    *)
(* are exactly the records of the logs the source holds in                  *)
(* [fromBlock, toBlock] that parse and pass the adapter's direction test,   *)
(* one record per such log, none from outside the range.                    *)
ExactResultSet ==
    pc = "returned" =>
        LET expected == adapter(chain, getLogs(fromBlock, toBlock))
        IN  /\ {result.events[i] : i \in 1..Len(result.events)}
                 = {expected[i] : i \in 1..Len(expected)}
            /\ Len(result.events) = Len(expected)

(* C4 - Failure floor: the call fails only on a rejected fetch over a       *)
(* window of at most 50 blocks, and then at once, with no further fetch; a  *)
(* rejected fetch over more than 50 blocks is never propagated and is       *)
(* followed by a fetch of [start, start + floor(range/2)], same start.      *)
FailureFloor ==
    /\ pc = "failed" => (fetches # <<>> /\ isTerminal(fetches[Len(fetches)]))
    /\ \A i \in 1..Len(fetches) :
          LET f == fetches[i]
              halved == f.start + (size(f) \div 2)
          IN  ~f.ok =>
                 IF size(f) <= 50
                 THEN i = Len(fetches) /\ pc = "failed" /\ result.status = "error"
                 ELSE IF i < Len(fetches)
                      THEN fetches[i + 1].start = f.start /\ fetches[i + 1].end = halved
                      ELSE pc = "awaiting" /\ start = f.start /\ end = halved

FailureFloorWitness ==
    /\ pc = "failed"
    /\ Len(fetches) >= 2
    /\ size(fetches[1]) > 50

(* C5 - Shrink termination: a scan never loops indefinitely.  Every call    *)
(* ends (returns or fails); a rejected fetch over a window of at most 50    *)
(* blocks ends the call with the error; so once such a window is fetched,   *)
(* the call ends with the error unless a fetch of such a window succeeds.   *)
ShrinkTermination ==
    /\ (pc = "awaiting") ~> (pc \in {"returned", "failed"})
    /\ (pc = "awaiting" /\ range(start, end) <= 50) ~>
           (pc = "failed" \/ \E i \in 1..Len(fetches) :
                                 fetches[i].ok /\ size(fetches[i]) <= 50)
    /\ [](\A i \in 1..Len(fetches) : isTerminal(fetches[i]) => pc = "failed")

ShrinkTerminationWitness ==
    /\ pc = "failed"
    /\ Len(fetches) >= 5
    /\ \A i \in 1..Len(fetches) : ~fetches[i].ok

(* C6 - Idempotence/determinism: two calls of the scan on the same network  *)
(* and range that both return, over the same source, return the same        *)
(* sequence of logs, whichever fetches failed in each.                      *)
ScanDeterminism ==
    pc = "returned" => \A p \in prevLogs : p = allLogs

(* C7 - Direction partition: a returned log that parses and has a known     *)
(* destination id D is in the result of an inflow adapter iff D = 173 and   *)
(* in the result of the outflow adapter iff D # 173, never in both modes;   *)
(* inflow records have isDeposit = TRUE, outflow records isDeposit = FALSE. *)
DirectionPartition ==
    pc = "returned" =>
        /\ \A i \in 1..Len(allLogs) :
              LET log == allLogs[i]
                  D == getDestinationChainId(log.extData)
              IN  (~parseLogThrows(log) /\ D # NULL) =>
                     /\ chain # ENI_CHAIN => (emits(result.events, log) <=> D = 173)
                     /\ chain = ENI_CHAIN => (emits(result.events, log) <=> D # 173)
                     /\ (inflowEvents(<<log>>) # <<>>) <=> (D = 173)
                     /\ (outflowEvents(<<log>>) # <<>>) <=> (D # 173)
                     /\ ~(inflowEvents(<<log>>) # <<>> /\ outflowEvents(<<log>>) # <<>>)
        /\ \A i \in 1..Len(result.events) :
              result.events[i].isDeposit = (chain # ENI_CHAIN)

DirectionPartitionWitness ==
    /\ pc = "returned"
    /\ chain = ENI_CHAIN
    /\ \E i, j \in 1..Len(allLogs) :
          /\ ~parseLogThrows(allLogs[i]) /\ ~parseLogThrows(allLogs[j])
          /\ getDestinationChainId(allLogs[i].extData) = 173
          /\ getDestinationChainId(allLogs[j].extData) = 1
          /\ emits(result.events, allLogs[j])

(* C8 - No partial result: once a fetch has failed terminally the call has  *)
(* failed as a whole, it hands its caller no record, not even of the chunks *)
(* fetched before, and the failed fetch is the last one the scan issued.    *)
NoPartialResult ==
    /\ \A i \in 1..Len(fetches) :
          isTerminal(fetches[i]) => (i = Len(fetches) /\ pc = "failed")
    /\ pc = "failed" => (result.status = "error" /\ result.events = <<>>)
    /\ pc # "returned" => result.events = <<>>
    /\ result.status = "ok" <=> pc = "returned"

NoPartialResultWitness ==
    /\ pc = "failed"
    /\ adapter(chain, allLogs) # <<>>

(* C9 - Ordering: fetches are issued in ascending start order, strictly     *)
(* ascending from one successful fetch to the next fetch; the accumulated   *)
(* logs are the successful fetches' logs in the order the fetches           *)
(* succeeded; the logs and the records built from them are in               *)
(* non-decreasing block order.                                              *)
Ordering ==
    /\ \A i \in 1..(Len(fetches) - 1) :
          /\ fetches[i].start <= fetches[i + 1].start
          /\ fetches[i].ok => fetches[i].start < fetches[i + 1].start
          /\ ~fetches[i].ok => fetches[i].start = fetches[i + 1].start
    /\ (pc = "awaiting" /\ fetches # <<>>) =>
          IF fetches[Len(fetches)].ok
          THEN fetches[Len(fetches)].start < start
          ELSE fetches[Len(fetches)].start = start
    /\ allLogs = logsOf(okFetches)
    /\ nonDecreasing(allLogs)
    /\ pc = "returned" =>
          /\ result.events = adapter(chain, allLogs)
          /\ nonDecreasing(result.events)

OrderingWitness ==
    /\ pc = "returned"
    /\ Len(okFetches) >= 2
    /\ Len(result.events) >= 2
    /\ result.events[1].blockNumber <= okFetches[1].end
    /\ result.events[2].blockNumber >= okFetches[2].start

(* C10 - Chunk-size selection: eni and ethereum scan with 3000 blocks a     *)
(* chunk, bsc 400, polygon 1500, arbitrum/optimism/base 4000; a scan in     *)
(* which no fetch fails issues ceil((toBlock - fromBlock + 1) / chunkSize)  *)
(* fetches, each of at most chunkSize blocks, only the last may be shorter. *)
documentedSize(c) ==
    CASE c = "bsc" -> 400
      [] c = "polygon" -> 1500
      [] c \in {"arbitrum", "optimism", "base"} -> 4000
      [] OTHER -> 3000

documentedChunkSize ==
    CASE chain = "bsc" -> 400
      [] chain = "polygon" -> 1500
      [] chain \in {"arbitrum", "optimism", "base"} -> 4000
      [] OTHER -> 3000

ChunkSizeSelection ==
    /\ chain = ENI_CHAIN => documentedChunkSize = 3000
    /\ (pc = "returned" /\ \A i \in 1..Len(fetches) : fetches[i].ok) =>
          /\ Len(fetches) = CeilDiv(toBlock - fromBlock + 1, documentedChunkSize)
          /\ \A i \in 1..Len(fetches) :
                /\ size(fetches[i]) <= documentedChunkSize
                /\ i < Len(fetches) => size(fetches[i]) = documentedChunkSize

ChunkSizeSelectionWitness ==
    /\ pc = "returned"
    /\ chain = ENI_CHAIN
    /\ Len(fetches) >= 2
    /\ \A i \in 1..Len(fetches) : fetches[i].ok
    /\ size(fetches[Len(fetches)]) < 3000

-----------------------------------------------------------------------------
(* C11 - Independence of concurrent scans: with two adapter calls           *)
(* interleaved at their fetches, each call's fetch windows are those it     *)
(* would issue alone with the same fetch outcomes, its accumulated logs are *)
(* its own network's logs of its own successful windows, its result is      *)
(* built from them, and it has failed exactly when its own last fetch was   *)
(* rejected over a window of at most 50 blocks.                             *)

RECURSIVE aloneFetches(_, _, _, _, _)
\* the fetches of a scan running alone: chunk size cs, window [s, e] next,
\* range end t, outcomes of its fetches in order
aloneFetches(cs, s, e, t, outcomes) ==
    IF outcomes = <<>> THEN <<>>
    ELSE <<[start |-> s, end |-> e, ok |-> Head(outcomes)]>> \o
         (IF Head(outcomes)
          THEN IF s + cs <= t
               THEN aloneFetches(cs, s + cs, IF s + 2 * cs - 1 <= t THEN s + 2 * cs - 1 ELSE t,
                                 t, Tail(outcomes))
               ELSE <<>>
          ELSE IF e - s + 1 <= 50
               THEN <<>>
               ELSE aloneFetches(cs, s, s + ((e - s + 1) \div 2), t, Tail(outcomes)))

RECURSIVE ownLogs(_, _)
\* the logs a network's source src holds in the windows ws, window after window
ownLogs(src, ws) ==
    IF ws = <<>> THEN <<>>
    ELSE SelectSeq(src, LAMBDA l : Head(ws).start <= l.blockNumber
                                   /\ l.blockNumber <= Head(ws).end)
         \o ownLogs(src, Tail(ws))

independent(sc) ==
    LET cs == documentedSize(sc.chain)
        first == IF sc.fromBlock + cs - 1 <= sc.toBlock
                 THEN sc.fromBlock + cs - 1 ELSE sc.toBlock
        outcomes == [i \in 1..Len(sc.fetches) |-> sc.fetches[i].ok]
        oks == SelectSeq(sc.fetches, LAMBDA f : f.ok)
        last == sc.fetches[Len(sc.fetches)]
    IN  /\ sc.fetches = aloneFetches(cs, sc.fromBlock, first, sc.toBlock, outcomes)
        /\ sc.allLogs = ownLogs(sc.source, oks)
        /\ \A i \in 1..Len(sc.allLogs) :
              \E j \in 1..Len(sc.source) : sc.allLogs[i] = sc.source[j]
        /\ sc.pc = "returned" => sc.result = [status |-> "ok",
                                                events |-> adapter(sc.chain, sc.allLogs)]
        /\ sc.pc = "failed" <=> (sc.fetches # <<>> /\ isTerminal(last))
        /\ sc.pc # "returned" => sc.result.events = <<>>

ConcurrentIndependence ==
    parked.id # 0 =>
        /\ independent(running)
        /\ independent(parked)
        /\ \A i \in 1..Len(running.result.events), j \in 1..Len(parked.source) :
              running.result.events[i].txHash # parked.source[j].transactionHash
        /\ \A i \in 1..Len(parked.result.events), j \in 1..Len(running.source) :
              parked.result.events[i].txHash # running.source[j].transactionHash

\* one call has failed while the other, which had begun before, went on and
\* returned records
ConcurrentIndependenceWitness ==
    /\ parked.id # 0
    /\ \E a, b \in {running, parked} :
          /\ a.pc = "failed"
          /\ Len(a.fetches) >= 2
          /\ a.allLogs # <<>>
          /\ b.pc = "returned"
          /\ Len(b.fetches) >= 3
          /\ b.result.events # <<>>

-----------------------------------------------------------------------------
(* C12 - Destination extraction: the destination id of a decoded extData    *)
(* text is the number written by the digits of the first key c=<digits>     *)
(* that begins the text or follows a & or ?, and null when there is none;   *)
(* the adapters classify by it, and the text r=1&c=173&x=9 gives 173: one   *)
(* inflow record with isDeposit = TRUE, no outflow record.                  *)

\* the text the bytes decode to
decodedText(bytes) ==
    [i \in 1..Len(bytes) |-> IF bytes[i] = BAD THEN REPLACEMENT ELSE bytes[i]]

RECURSIVE segments(_, _)
\* the pieces of text between the delimiters & and ?, cur being the piece
\* read so far
segments(text, cur) ==
    IF text = <<>> THEN <<cur>>
    ELSE IF Head(text) \in {"&", "?"}
         THEN <<cur>> \o segments(Tail(text), <<>>)
         ELSE segments(Tail(text), Append(cur, Head(text)))

digitChars == <<"0", "1", "2", "3", "4", "5", "6", "7", "8", "9">>

isDigitChar(c) == \E n \in 1..10 : digitChars[n] = c

RECURSIVE leadingDigits(_)
leadingDigits(text) ==
    IF text # <<>> /\ isDigitChar(Head(text))
    THEN <<Head(text)>> \o leadingDigits(Tail(text))
    ELSE <<>>

RECURSIVE decimal(_)
decimal(ds) ==
    IF ds = <<>> THEN 0
    ELSE 10 * decimal(SubSeq(ds, 1, Len(ds) - 1))
         + ((CHOOSE n \in 1..10 : digitChars[n] = ds[Len(ds)]) - 1)

\* a piece that is a key c=<digits>
isChainKey(seg) ==
    /\ Len(seg) >= 3
    /\ seg[1] = "c"
    /\ seg[2] = "="
    /\ isDigitChar(seg[3])

\* the documented destination id of a decoded text, NULL when it has no key
documentedDestination(text) ==
    LET segs == segments(text, <<>>)
        keys == {k \in 1..Len(segs) : isChainKey(segs[k])}
    IN  IF keys = {} THEN NULL
        ELSE LET k == CHOOSE k \in keys : \A j \in keys : k <= j
             IN  decimal(leadingDigits(SubSeq(segs[k], 3, Len(segs[k]))))

exampleText == <<"r", "=", "1", "&", "c", "=", "1", "7", "3", "&", "x", "=", "9">>

DestinationExtraction ==
    /\ \A i \in 1..Len(source) :
          getDestinationChainId(source[i].extData)
              = documentedDestination(decodedText(source[i].extData))
    /\ pc = "returned" =>
          \A i \in 1..Len(allLogs) :
              LET log == allLogs[i]
                  D == documentedDestination(decodedText(log.extData))
              IN  /\ ~parseLogThrows(log) =>
                        (emits(result.events, log) <=> ((chain # ENI_CHAIN) <=> (D = 173)))
                  /\ (~parseLogThrows(log) /\ log.extData = exampleText) =>
                        /\ getDestinationChainId(log.extData) = 173
                        /\ inflowEvents(<<log>>) = <<Event(log, TRUE)>>
                        /\ outflowEvents(<<log>>) = <<>>
                        /\ chain # ENI_CHAIN => result.events = <<Event(log, TRUE)>>
                        /\ chain = ENI_CHAIN => result.events = <<>>

\* the example text was scanned by an inflow adapter
DestinationExtractionWitness ==
    /\ pc = "returned"
    /\ chain # ENI_CHAIN
    /\ Len(allLogs) = 1
    /\ allLogs[1].extData = exampleText
    /\ Len(result.events) = 1
    /\ result.events[1].isDeposit

-----------------------------------------------------------------------------
(* C13 - Decode failures are skipped silently: a returned log that does not *)
(* parse as BridgeExecuted yields no record and no error; the result is     *)
(* what the adapter builds from the other logs; a call fails only on a      *)
(* fetch, never on the content of a log.                                    *)
DecodeFailuresSkipped ==
    /\ pc = "returned" =>
          /\ result.status = "ok"
          /\ \A i \in 1..Len(allLogs) :
                parseLogThrows(allLogs[i]) => ~emits(result.events, allLogs[i])
          /\ result.events =
                adapter(chain, SelectSeq(allLogs, LAMBDA l : l.topic0 = "BridgeExecuted"))
    /\ result.status = "error" =>
          (pc = "failed" /\ fetches # <<>> /\ isTerminal(fetches[Len(fetches)]))
    /\ (pc = "awaiting" /\ fetches # <<>> /\ fetches[Len(fetches)].ok) =>
          result.status = "none"

\* a result with a record, from logs of which one did not parse
DecodeFailuresSkippedWitness ==
    /\ pc = "returned"
    /\ \E i, j \in 1..Len(allLogs) :
          /\ parseLogThrows(allLogs[i])
          /\ emits(result.events, allLogs[j])

(* C14 - Shrink only re-scopes end: a rejected fetch leaves start, the      *)
(* accumulated logs and the request as they were; when the scan goes on,    *)
(* the new end is below the old one and not below start; in the history,    *)
(* the attempts of one chunk have the same start and strictly falling ends. *)
ShrinkOnlyEnd ==
    /\ [][fetches' = Append(fetches, [start |-> start, end |-> end, ok |-> FALSE]) =>
            /\ start' = start
            /\ allLogs' = allLogs
            /\ <<chain, fromBlock, toBlock, source>>' = <<chain, fromBlock, toBlock, source>>
            /\ pc' = "awaiting" => (end' < end /\ start <= end' /\ result' = result)
            /\ pc' # "awaiting" => end' = end]_vars
    /\ [](\A i \in 1..(Len(fetches) - 1) :
             ~fetches[i].ok =>
                /\ fetches[i + 1].start = fetches[i].start
                /\ fetches[i + 1].end < fetches[i].end
                /\ fetches[i + 1].end >= fetches[i].start)

\* two shrinks in a row in a chunk after the first, logs already accumulated
ShrinkOnlyEndWitness ==
    /\ pc = "awaiting"
    /\ allLogs # <<>>
    /\ Len(fetches) >= 3
    /\ ~fetches[Len(fetches)].ok
    /\ ~fetches[Len(fetches) - 1].ok
    /\ end < fetches[Len(fetches)].end

(* C15 - Chunk starts lie on a fixed grid: once the call has begun, start   *)
(* is fromBlock plus a multiple of the chunk size, whatever failed before,  *)
(* and the first attempt of every chunk is over                             *)
(* [start, min(start + chunkSize - 1, toBlock)].                            *)
ChunkGrid ==
    LET cs == documentedChunkSize
        onGrid(b) == b >= fromBlock /\ (b - fromBlock) % cs = 0
        full(b) == IF b + cs - 1 <= toBlock THEN b + cs - 1 ELSE toBlock
    IN  pc # "idle" =>
           /\ onGrid(start)
           /\ \A i \in 1..Len(fetches) :
                 /\ onGrid(fetches[i].start)
                 /\ (i = 1 \/ fetches[i - 1].ok) => fetches[i].end = full(fetches[i].start)
                 /\ (i > 1 /\ fetches[i - 1].ok) =>
                       fetches[i].start = fetches[i - 1].start + cs
           /\ (pc = "awaiting" /\ (fetches = <<>> \/ fetches[Len(fetches)].ok)) =>
                 end = full(start)

\* a chunk that succeeded only after a shrink, followed by a chunk first
\* tried at the full size
ChunkGridWitness ==
    /\ Len(fetches) >= 3
    /\ ~fetches[1].ok
    /\ fetches[2].ok
    /\ fetches[3].start = fromBlock + documentedChunkSize
    /\ size(fetches[3]) = documentedChunkSize

(* C16 - Windows stay in range and apart: every fetch is over a window      *)
(* with fromBlock <= start <= end <= toBlock; the windows of the fetches    *)
(* that succeeded are pairwise disjoint and ascending; no log is in the     *)
(* accumulated logs twice.                                                  *)
WindowsInRange ==
    /\ \A i \in 1..Len(fetches) :
          /\ fromBlock <= fetches[i].start
          /\ fetches[i].start <= fetches[i].end
          /\ fetches[i].end <= toBlock
    /\ pc = "awaiting" => (fromBlock <= start /\ start <= end /\ end <= toBlock)
    /\ \A i, j \in 1..Len(okFetches) : i < j => okFetches[i].end < okFetches[j].start
    /\ \A i, j \in 1..Len(allLogs) :
          i # j => allLogs[i].transactionHash # allLogs[j].transactionHash

\* logs accumulated from two windows, after a shrink
WindowsInRangeWitness ==
    /\ pc = "returned"
    /\ Len(okFetches) >= 2
    /\ Len(fetches) > Len(okFetches)
    /\ Len(allLogs) >= 2
    /\ allLogs[1].blockNumber < okFetches[2].start
    /\ allLogs[2].blockNumber >= okFetches[2].start

(* C17 - Bounded retries per chunk: after a rejected fetch over r > 50      *)
(* blocks the next window has floor(r/2) + 1 blocks, fewer than r and at    *)
(* least 26; only the first window of a chunk can be shorter than 26; a     *)
(* chunk is attempted at most 8 times, a chunk of 4000 blocks whose fetches *)
(* all fail over 4000, 2001, 1001, 501, 251, 126, 64, 33 blocks.            *)
sizesOf(fs) == [i \in 1..Len(fs) |-> size(fs[i])]

BoundedRetries ==
    /\ \A i \in 1..(Len(fetches) - 1) :
          ~fetches[i].ok =>
             /\ size(fetches[i]) > 50
             /\ size(fetches[i + 1]) = (size(fetches[i]) \div 2) + 1
             /\ size(fetches[i + 1]) < size(fetches[i])
             /\ size(fetches[i + 1]) >= 26
    /\ (pc = "awaiting" /\ fetches # <<>> /\ ~fetches[Len(fetches)].ok) =>
          /\ end - start + 1 = (size(fetches[Len(fetches)]) \div 2) + 1
          /\ end - start + 1 >= 26
    /\ \A i \in 1..Len(fetches) :
          /\ size(fetches[i]) < 26 => (i = 1 \/ fetches[i - 1].ok)
          /\ Cardinality({j \in 1..Len(fetches) : fetches[j].start = fetches[i].start}) <= 8
    /\ (Len(fetches) >= 8 /\ size(fetches[1]) = 4000
          /\ \A i \in 1..8 : ~fetches[i].ok) =>
          /\ sizesOf(SubSeq(fetches, 1, 8)) = <<4000, 2001, 1001, 501, 251, 126, 64, 33>>
          /\ Len(fetches) = 8
          /\ pc = "failed"

\* a chunk of 4000 blocks given up after its eighth attempt
BoundedRetriesWitness ==
    /\ pc = "failed"
    /\ Len(fetches) = 8
    /\ size(fetches[1]) = 4000
    /\ size(fetches[8]) = 33

====
